---- MODULE Spec2Model ----
\* Model of close_near_low_new.py: the close-near-low signal, the backtest loop
\* with its forced final exit, and the construction of the equity curve.
\*
\* Prices are integers (a fixed-point price grid); balances and return factors
\* are exact fractions <<numerator, denominator>> in lowest terms.  Python's
\* 0-based positions are kept: row i of the frame is data[i + 1].
EXTENDS Integers, Sequences, FiniteSets, TLC

VARIABLES
    columns,         \* data.columns of the downloaded frame
    pct_thresh,      \* PCT_THRESH
    data,            \* the downloaded frame: one record per row, data.index is Date
    signal,          \* data["signal"], <<>> until the column is computed
    pc,              \* position in the script
    i,               \* loop variable of the backtest loop, then of the equity loop
    balance,
    in_trade,
    entry_price,
    entry_date,
    trades,
    log,             \* the records written through logging
    equity_curve,    \* the equity frame: rows of index date and "balance";
                     \* <<>> until the frame is built
    current_balance,
    trade_idx

vars == <<columns, pct_thresh, data, signal, pc, i, balance, in_trade,
          entry_price, entry_date, trades, log, equity_curve,
          current_balance, trade_idx>>

----------------------------------------------------------------------------
\* Bounds of the model

MaxBars == 4
MaxPrice == 12

\* Program constants
STARTING_BALANCE == 1000
PCT_THRESH == 10

\* The rows the backtest is run on: for each of two closes a signal day and a
\* non-signal day at PCT_THRESH = 10.
BarShapes ==
    { [High |-> 13, Low |-> 1, Close |-> 2],
      [High |-> 3,  Low |-> 1, Close |-> 2],
      [High |-> 13, Low |-> 2, Close |-> 3],
      [High |-> 3,  Low |-> 1, Close |-> 3] }

\* The index of the frame: the first date, then each date one day later, the
\* same day or one day earlier than the row before it.
DateSteps == {-1, 0, 1}

\* the date of row k: the first date moved by the steps of rows 2..k
RECURSIVE DateAt(_, _)
DateAt(st, k) == IF k = 1 THEN 10 ELSE DateAt(st, k - 1) + st[k]

Frame(n, st, sh) ==
    [k \in 1..n |-> [Date |-> DateAt(st, k), High |-> sh[k].High,
                     Low |-> sh[k].Low, Close |-> sh[k].Close]]

OHLC == {"Open", "High", "Low", "Close"}
ColumnSets == { OHLC \cup {"Volume"}, {"Open", "High", "Close", "Volume"} }

\* The rows and thresholds the signal alone is computed on
SignalBars == [Date : {1}, High : 0..MaxPrice, Low : 0..MaxPrice, Close : 0..MaxPrice]
Thresholds == {0, 10, 50, 100}

None == <<>>
\* an entry that leaves the value unset
Some_Unset(x) == <<>>

Some(x) == <<x>>
Get(o) == o[1]

----------------------------------------------------------------------------
\* Exact fractions

RECURSIVE GCD(_, _)
GCD(a, b) == IF b = 0 THEN a ELSE GCD(b, a % b)

Frac(n, d) == LET g == GCD(n, d) IN <<n \div g, d \div g>>
FracMul(x, y) == Frac(x[1] * y[1], x[2] * y[2])

----------------------------------------------------------------------------
\* The script's expressions

iloc(df, k) == df[k + 1]
index(df, k) == df[k + 1].Date
ilocLast(df) == df[Len(df)]

\* a column check that looks for the Close column only
HasOHLC_CloseOnly(cols) == "Close" \in cols

\* set(["Open", "High", "Low", "Close"]).issubset(data.columns)
HasOHLC(cols) == OHLC \subseteq cols

\* a signal that needs the close strictly inside the bottom band
SignalOf_Strict(bar, pct) == 100 * (bar.Close - bar.Low) < pct * (bar.High - bar.Low)

\* (Close - Low) <= (PCT_THRESH / 100) * (High - Low), on the integer grid
SignalOf(bar, pct) == 100 * (bar.Close - bar.Low) <= pct * (bar.High - bar.Low)

\* range(len(data) - 1): the positions the backtest loop visits are 0 .. stop-1
RangeStop(n) == n - 1

\* a return factor with the quotient the wrong way round
TradeReturn_Inverted(exit_price, ep) == Frac(ep, exit_price)

\* trade_return = exit_price / entry_price
TradeReturn(exit_price, ep) == Frac(exit_price, ep)

\* a balance that does not compound: each trade applied to the starting balance
NewBalance_NoCompound(b, trade_return) ==
    FracMul(Frac(STARTING_BALANCE, 1), trade_return)

\* balance *= trade_return
NewBalance(b, trade_return) == FracMul(b, trade_return)

Trade(ed, xd, ep, xp, rf, bal) ==
    [entry_date |-> ed, exit_date |-> xd, entry_price |-> ep,
     exit_price |-> xp, return_factor |-> rf, balance_after_trade |-> bal]

\* a forced exit priced at the last row the loop visited
ForcedExitPrice_LoopRow(df) == df[Len(df) - 1].Close

\* the row and date the forced exit takes its price and date from
ForcedExitPrice(df) == ilocLast(df).Close
\* a forced exit dated from the last row the loop visited
ForcedExitDate_LoopRow(df) == df[Len(df) - 1].Date

ForcedExitDate(df) == ilocLast(df).Date

\* tomorrow["signal"] read in place of today["signal"]
TodaySignal_Tomorrow(sig, k) == sig[k + 2]

\* today["signal"] at position k
TodaySignal(sig, k) == sig[k + 1]

\* an entry branch that does not look at in_trade
NotInTrade_Ignored(it) == TRUE

\* if not in_trade
NotInTrade(it) == ~it

\* date_today = data.index[i], the date an entry carries
DateToday(df, k) == index(df, k)

\* a regular exit dated date_tomorrow
ExitDate_Tomorrow(df, k) == index(df, k + 1)

\* exit_date = date_today
ExitDate(df, k) == DateToday(df, k)

\* an equity frame that leaves out the last date
NewEquityCurve_Short(df) ==
    [k \in 1..(Len(df) - 1) |-> [date |-> df[k].Date, balance |-> Frac(STARTING_BALANCE, 1)]]

\* pd.DataFrame(index=data.index, columns=["balance"]) set to STARTING_BALANCE
NewEquityCurve(df) ==
    [k \in 1..Len(df) |-> [date |-> df[k].Date, balance |-> Frac(STARTING_BALANCE, 1)]]

\* equity_curve.loc[current_date, "balance"] = v: every row labelled current_date
LocSet(curve, current_date, v) ==
    [k \in 1..Len(curve) |->
        IF curve[k].date = current_date THEN [curve[k] EXCEPT !.balance = v]
        ELSE curve[k]]

----------------------------------------------------------------------------
\* Initial states

InitRest ==
    /\ signal = <<>>
    /\ pc = "check"
    /\ i = 0
    /\ balance = Frac(STARTING_BALANCE, 1)
    /\ in_trade = FALSE
    /\ entry_price = None
    /\ entry_date = None
    /\ trades = <<>>
    /\ log = <<>>
    /\ equity_curve = <<>>
    /\ current_balance = Frac(STARTING_BALANCE, 1)
    /\ trade_idx = 0

Init ==
    /\ columns \in ColumnSets
    /\ pct_thresh = PCT_THRESH
    /\ \E n \in 0..MaxBars :
         \E st \in [2..n -> DateSteps], sh \in [1..n -> BarShapes] :
            data = Frame(n, st, sh)
    /\ InitRest

InitSignal ==
    /\ columns = OHLC
    /\ pct_thresh \in Thresholds
    /\ data \in { <<b>> : b \in SignalBars }
    /\ InitRest

----------------------------------------------------------------------------
\* Lines 35-38: the column check

CheckColumnsRaise ==
    /\ pc = "check"
    /\ ~HasOHLC(columns)
    /\ log' = Append(log, [kind |-> "error"])
    /\ pc' = "raised"
    /\ UNCHANGED <<columns, pct_thresh, data, signal, i, balance, in_trade,
                   entry_price, entry_date, trades, equity_curve,
                   current_balance, trade_idx>>

CheckColumnsPass ==
    /\ pc = "check"
    /\ HasOHLC(columns)
    /\ pc' = "signal"
    /\ UNCHANGED <<columns, pct_thresh, data, signal, i, balance, in_trade,
                   entry_price, entry_date, trades, log, equity_curve,
                   current_balance, trade_idx>>

\* Lines 40-51: the signal column, then the initial state of the backtest
ComputeSignal ==
    /\ pc = "signal"
    /\ signal' = [k \in 1..Len(data) |-> SignalOf(data[k], pct_thresh)]
    /\ balance' = Frac(STARTING_BALANCE, 1)
    /\ in_trade' = FALSE
    /\ entry_price' = None
    /\ entry_date' = None
    /\ trades' = <<>>
    /\ i' = 0
    /\ pc' = "loop"
    /\ UNCHANGED <<columns, pct_thresh, data, log, equity_curve,
                   current_balance, trade_idx>>

----------------------------------------------------------------------------
\* Lines 53-92: one iteration of the backtest loop

InLoop == pc = "loop" /\ i < RangeStop(Len(data))

\* data.iloc[i + 1] (tomorrow) must exist
TomorrowExists == i + 1 < Len(data)

LoopRaise ==
    /\ pc' = "raised"
    /\ UNCHANGED <<columns, pct_thresh, data, signal, i, balance, in_trade,
                   entry_price, entry_date, trades, log, equity_curve,
                   current_balance, trade_idx>>

\* not in_trade, today["signal"]
Enter ==
    /\ InLoop
    /\ NotInTrade(in_trade)
    /\ TodaySignal(signal, i)
    /\ IF ~TomorrowExists THEN LoopRaise
       ELSE
        /\ entry_price' = Some(iloc(data, i).Close)
        /\ entry_date' = Some(DateToday(data, i))
        /\ in_trade' = TRUE
        /\ log' = Append(log, [kind |-> "entered", date |-> DateToday(data, i)])
        /\ i' = i + 1
        /\ UNCHANGED <<columns, pct_thresh, data, signal, pc, balance, trades,
                       equity_curve, current_balance, trade_idx>>

\* not in_trade, not today["signal"]
StayFlat ==
    /\ InLoop
    /\ NotInTrade(in_trade)
    /\ ~TodaySignal(signal, i)
    /\ IF ~TomorrowExists THEN LoopRaise
       ELSE
        /\ i' = i + 1
        /\ UNCHANGED <<columns, pct_thresh, data, signal, pc, balance, in_trade,
                       entry_price, entry_date, trades, log, equity_curve,
                       current_balance, trade_idx>>

\* in_trade, today["signal"]
Hold ==
    /\ InLoop
    /\ ~NotInTrade(in_trade)
    /\ TodaySignal(signal, i)
    /\ IF ~TomorrowExists THEN LoopRaise
       ELSE
        /\ i' = i + 1
        /\ UNCHANGED <<columns, pct_thresh, data, signal, pc, balance, in_trade,
                       entry_price, entry_date, trades, log, equity_curve,
                       current_balance, trade_idx>>

\* in_trade, not today["signal"]
Exit ==
    /\ InLoop
    /\ ~NotInTrade(in_trade)
    /\ ~TodaySignal(signal, i)
    /\ IF ~TomorrowExists \/ entry_price = None THEN LoopRaise
       ELSE
        LET exit_price == iloc(data, i).Close
            exit_date == ExitDate(data, i)
            trade_return == TradeReturn(exit_price, Get(entry_price))
            b == NewBalance(balance, trade_return)
        IN
        /\ balance' = b
        /\ trades' = Append(trades, Trade(Get(entry_date), exit_date, Get(entry_price),
                                          exit_price, trade_return, b))
        /\ log' = Append(log, [kind |-> "exited", date |-> exit_date])
        /\ in_trade' = FALSE
        /\ entry_price' = None
        /\ entry_date' = None
        /\ i' = i + 1
        /\ UNCHANGED <<columns, pct_thresh, data, signal, pc, equity_curve,
                       current_balance, trade_idx>>

\* the loop is exhausted
LoopEnd ==
    /\ pc = "loop"
    /\ ~(i < RangeStop(Len(data)))
    /\ pc' = "forced"
    /\ UNCHANGED <<columns, pct_thresh, data, signal, i, balance, in_trade,
                   entry_price, entry_date, trades, log, equity_curve,
                   current_balance, trade_idx>>

----------------------------------------------------------------------------
\* Lines 94-117: the forced exit on the final day's close

ForcedExit ==
    /\ pc = "forced"
    /\ in_trade
    /\ IF Len(data) = 0 \/ entry_price = None THEN LoopRaise
       ELSE
        LET exit_price == ForcedExitPrice(data)
            exit_date == ForcedExitDate(data)
            trade_return == TradeReturn(exit_price, Get(entry_price))
            b == NewBalance(balance, trade_return)
        IN
        /\ balance' = b
        /\ trades' = Append(trades, Trade(Get(entry_date), exit_date, Get(entry_price),
                                          exit_price, trade_return, b))
        /\ log' = Append(log, [kind |-> "final_exit", date |-> exit_date])
        /\ in_trade' = FALSE
        /\ pc' = "report"
        /\ UNCHANGED <<columns, pct_thresh, data, signal, i, entry_price, entry_date,
                       equity_curve, current_balance, trade_idx>>

NoForcedExit ==
    /\ pc = "forced"
    /\ ~in_trade
    /\ pc' = "report"
    /\ UNCHANGED <<columns, pct_thresh, data, signal, i, balance, in_trade,
                   entry_price, entry_date, trades, log, equity_curve,
                   current_balance, trade_idx>>

----------------------------------------------------------------------------
\* Lines 119-130: the final results are logged and the equity frame is created

Report ==
    /\ pc = "report"
    /\ log' = Append(log, [kind |-> "final_balance", balance |-> balance])
    /\ equity_curve' = NewEquityCurve(data)
    /\ current_balance' = Frac(STARTING_BALANCE, 1)
    /\ trade_idx' = 0
    /\ i' = 0
    /\ pc' = "equity"
    /\ UNCHANGED <<columns, pct_thresh, data, signal, balance, in_trade,
                   entry_price, entry_date, trades>>

\* Lines 132-137: one iteration of the equity loop

\* a bound on trade_idx that stops one trade short
ExitedOn_SkipLast(ts, idx, current_date) ==
    idx < Len(ts) - 1 /\ ts[idx + 1].exit_date = current_date

\* a match on the entry date of the next trade
ExitedOn_EntryDate(ts, idx, current_date) ==
    idx < Len(ts) /\ ts[idx + 1].entry_date = current_date

\* trade_idx < len(trades) and trades[trade_idx]["exit_date"] == current_date
ExitedOn(ts, idx, current_date) ==
    idx < Len(ts) /\ ts[idx + 1].exit_date = current_date

EquityExit ==
    /\ pc = "equity"
    /\ i < Len(data)
    /\ ExitedOn(trades, trade_idx, index(data, i))
    /\ current_balance' = trades[trade_idx + 1].balance_after_trade
    /\ trade_idx' = trade_idx + 1
    /\ equity_curve' = LocSet(equity_curve, index(data, i),
                              trades[trade_idx + 1].balance_after_trade)
    /\ i' = i + 1
    /\ UNCHANGED <<columns, pct_thresh, data, signal, pc, balance, in_trade,
                   entry_price, entry_date, trades, log>>

EquityKeep ==
    /\ pc = "equity"
    /\ i < Len(data)
    /\ ~ExitedOn(trades, trade_idx, index(data, i))
    /\ equity_curve' = LocSet(equity_curve, index(data, i), current_balance)
    /\ i' = i + 1
    /\ UNCHANGED <<columns, pct_thresh, data, signal, pc, balance, in_trade,
                   entry_price, entry_date, trades, log, current_balance, trade_idx>>

EquityEnd ==
    /\ pc = "equity"
    /\ ~(i < Len(data))
    /\ pc' = "done"
    /\ UNCHANGED <<columns, pct_thresh, data, signal, i, balance, in_trade,
                   entry_price, entry_date, trades, log, equity_curve,
                   current_balance, trade_idx>>

----------------------------------------------------------------------------

Next ==
    \/ CheckColumnsRaise
    \/ CheckColumnsPass
    \/ ComputeSignal
    \/ Enter
    \/ StayFlat
    \/ Hold
    \/ Exit
    \/ LoopEnd
    \/ ForcedExit
    \/ NoForcedExit
    \/ Report
    \/ EquityExit
    \/ EquityKeep
    \/ EquityEnd

Spec == Init /\ [][Next]_vars

\* The signal column alone, over every row of the price grid and every threshold
NextSignal ==
    \/ CheckColumnsPass
    \/ ComputeSignal

SpecSignal == InitSignal /\ [][NextSignal]_vars

----------------------------------------------------------------------------
\* The script as a function of the frame and its signal column

\* lines 47-51
LoopState0 ==
    [in_trade |-> FALSE, entry_price |-> None, entry_date |-> None,
     trades |-> <<>>, balance |-> Frac(STARTING_BALANCE, 1)]

\* lines 53-92: the state after the iterations at positions 0 .. k-1
RECURSIVE RunLoop(_, _, _)
RunLoop(df, sig, k) ==
    IF k <= 0 THEN LoopState0
    ELSE
        LET s == RunLoop(df, sig, k - 1)
            r == k - 1
            exit_price == iloc(df, r).Close
            trade_return == TradeReturn(exit_price, Get(s.entry_price))
            b == NewBalance(s.balance, trade_return)
        IN
        IF NotInTrade(s.in_trade)
        THEN IF TodaySignal(sig, r)
             THEN [s EXCEPT !.in_trade = TRUE,
                            !.entry_price = Some(iloc(df, r).Close),
                            !.entry_date = Some(DateToday(df, r))]
             ELSE s
        ELSE IF ~TodaySignal(sig, r)
             THEN [in_trade |-> FALSE, entry_price |-> None, entry_date |-> None,
                   trades |-> Append(s.trades,
                                     Trade(Get(s.entry_date), ExitDate(df, r),
                                           Get(s.entry_price), exit_price, trade_return, b)),
                   balance |-> b]
             ELSE s

\* lines 53-117: the loop over range(len(data) - 1), then the forced exit
RunBacktest(df, sig) ==
    LET s == RunLoop(df, sig, RangeStop(Len(df)))
        exit_price == ForcedExitPrice(df)
        trade_return == TradeReturn(exit_price, Get(s.entry_price))
        b == NewBalance(s.balance, trade_return)
    IN
    IF s.in_trade
    THEN [trades |-> Append(s.trades,
                            Trade(Get(s.entry_date), ForcedExitDate(df),
                                  Get(s.entry_price), exit_price, trade_return, b)),
          balance |-> b]
    ELSE [trades |-> s.trades, balance |-> s.balance]

\* lines 127-137: the equity frame after the iterations at positions 0 .. k-1
RECURSIVE EquityPass(_, _, _)
EquityPass(df, ts, k) ==
    IF k <= 0
    THEN [curve |-> NewEquityCurve(df), current_balance |-> Frac(STARTING_BALANCE, 1),
          trade_idx |-> 0]
    ELSE
        LET s == EquityPass(df, ts, k - 1)
            current_date == index(df, k - 1)
        IN
        IF ExitedOn(ts, s.trade_idx, current_date)
        THEN [curve |-> LocSet(s.curve, current_date, ts[s.trade_idx + 1].balance_after_trade),
              current_balance |-> ts[s.trade_idx + 1].balance_after_trade,
              trade_idx |-> s.trade_idx + 1]
        ELSE [s EXCEPT !.curve = LocSet(s.curve, current_date, s.current_balance)]

\* the report of a run: trade list, final balance and equity curve
RunReport(df, sig) ==
    LET bt == RunBacktest(df, sig)
    IN [trades |-> bt.trades, balance |-> bt.balance,
        equity_curve |-> EquityPass(df, bt.trades, Len(df)).curve]

----------------------------------------------------------------------------
\* Vocabulary of the properties

Start == Frac(STARTING_BALANCE, 1)

\* the regular pass and the forced-exit check have both run
Finished == pc \in {"report", "equity", "done"}

\* data.index is strictly increasing
StrictDates == \A k \in 1..(Len(data) - 1) : data[k].Date < data[k + 1].Date

\* the number of "Entered trade" records, one per FLAT -> IN_TRADE transition
NumEntered == Cardinality({ k \in 1..Len(log) : log[k].kind = "entered" })

LastTrade(ts) == ts[Len(ts)]

SignalComputed == Len(signal) = Len(data) /\ pc \notin {"check", "signal"}

RECURSIVE NumProduct(_, _)
NumProduct(ts, k) == IF k = 0 THEN 1 ELSE NumProduct(ts, k - 1) * ts[k].return_factor[1]

RECURSIVE DenProduct(_, _)
DenProduct(ts, k) == IF k = 0 THEN 1 ELSE DenProduct(ts, k - 1) * ts[k].return_factor[2]

\* STARTING_BALANCE times the product of the first k return factors
StartTimesProduct(ts, k) == Frac(STARTING_BALANCE * NumProduct(ts, k), DenProduct(ts, k))

----------------------------------------------------------------------------
\* C1: once the regular pass and the forced-exit check have run the machine is
\* flat and as many trades were emitted as positions were entered; the
\* forced-exit check appends exactly one trade, priced and dated from the last
\* row, when a position is open, and leaves the trade log alone otherwise.
C1_ForcedExitLeavesFlat ==
    /\ [](Finished => (~in_trade /\ Len(trades) = NumEntered))
    /\ [][(pc = "forced" /\ pc' # "forced") =>
            /\ pc' = "report"
            /\ IF in_trade
               THEN /\ Len(trades') = Len(trades) + 1
                    /\ SubSeq(trades', 1, Len(trades)) = trades
                    /\ LastTrade(trades').exit_price = data[Len(data)].Close
                    /\ LastTrade(trades').exit_date = data[Len(data)].Date
               ELSE trades' = trades]_vars

C1_Witness ==
    /\ pc = "report"
    /\ Len(trades) = 2
    /\ log[Len(log)].kind = "final_exit"

\* C2: the running balance is STARTING_BALANCE times the product of the return
\* factors of the trades logged so far, and the k-th trade's
\* balance_after_trade is STARTING_BALANCE times the product of the first k.
C2_BalanceIsProduct ==
    /\ balance = StartTimesProduct(trades, Len(trades))
    /\ \A k \in 1..Len(trades) :
          trades[k].balance_after_trade = StartTimesProduct(trades, k)

C2_Witness ==
    /\ Len(trades) = 2
    /\ trades[1].return_factor # <<1, 1>>
    /\ trades[2].return_factor # <<1, 1>>
    /\ balance # Start

\* C3: at most one position is open at any time (entries not yet exited are
\* 1 when in_trade and 0 otherwise), and a trade emitted by the regular pass
\* was entered on a row strictly before the row it exits on, so that under
\* strictly increasing dates its entry_date is before its exit_date.
C3_OnePositionEntryBeforeExit ==
    /\ [](NumEntered - Len(trades) = IF in_trade THEN 1 ELSE 0)
    /\ [][(pc = "loop" /\ trades' # trades) =>
            LET t == LastTrade(trades') IN
            /\ \E k \in 0..(i - 1) :
                  /\ t.entry_date = index(data, k)
                  /\ t.entry_price = iloc(data, k).Close
            /\ t.exit_date = index(data, i)
            /\ StrictDates => t.entry_date < t.exit_date]_vars

C3_Witness ==
    /\ pc = "loop"
    /\ Len(trades) = 1
    /\ in_trade
    /\ StrictDates

\* C4: under strictly increasing dates the trade log is ordered by strictly
\* increasing exit_date, every exit_date is a date of the frame, and each
\* trade exits strictly before the next one is entered.
C4_TradeLogOrdered ==
    StrictDates =>
        \A k \in 1..Len(trades) :
            /\ \E m \in 1..Len(data) : trades[k].exit_date = data[m].Date
            /\ k < Len(trades) =>
                  /\ trades[k].exit_date < trades[k + 1].exit_date
                  /\ trades[k].exit_date < trades[k + 1].entry_date

C4_Witness ==
    /\ StrictDates
    /\ pc = "done"
    /\ Len(trades) = 2

\* the signal is true on the last row only
OnlyLastSignal ==
    /\ Len(data) >= 2
    /\ SignalComputed
    /\ signal[Len(data)]
    /\ \A k \in 1..(Len(data) - 1) : ~signal[k]

\* C5 as stated: with the signal true on the last row only, the run emits a
\* forced-exit trade entered and exited on the last row, with return factor 1
\* and the balance unchanged.
C5_Original ==
    (Finished /\ OnlyLastSignal) =>
        /\ Len(trades) = 1
        /\ trades[1].entry_date = data[Len(data)].Date
        /\ trades[1].exit_date = data[Len(data)].Date
        /\ trades[1].entry_price = data[Len(data)].Close
        /\ trades[1].exit_price = data[Len(data)].Close
        /\ trades[1].return_factor = <<1, 1>>
        /\ balance = Start

\* C5 amended: with the signal true on the last row only, the run enters no
\* position and emits no trade, and the final balance is the starting balance.
C5_NoTradeOnLastRowSignal ==
    (Finished /\ OnlyLastSignal) =>
        /\ trades = <<>>
        /\ NumEntered = 0
        /\ balance = Start

C5_Witness ==
    /\ pc = "done"
    /\ OnlyLastSignal
    /\ Len(data) = 3

\* the signal is true on every row
AllSignal ==
    /\ Len(data) >= 2
    /\ SignalComputed
    /\ \A k \in 1..Len(data) : signal[k]

\* C6: with the signal true on every row of a frame of two or more rows the run
\* emits exactly one trade, entered at row 0 and exited at the last row, and
\* the final balance is STARTING_BALANCE * close[n-1] / close[0].
C6_AlwaysSignalOneTrade ==
    (Finished /\ AllSignal) =>
        /\ Len(trades) = 1
        /\ trades[1].entry_date = data[1].Date
        /\ trades[1].entry_price = data[1].Close
        /\ trades[1].exit_date = data[Len(data)].Date
        /\ trades[1].exit_price = data[Len(data)].Close
        /\ balance = Frac(STARTING_BALANCE * data[Len(data)].Close, data[1].Close)

C6_Witness ==
    /\ pc = "done"
    /\ AllSignal
    /\ Len(data) = 4
    /\ data[1].Close # data[4].Close
    /\ data[3].Close # data[4].Close

ValidBar(b) == b.Low <= b.Close /\ b.Close <= b.High

\* C7: for a row with Low <= Close <= High the signal is true exactly when
\* Close - Low <= (pct / 100) * (High - Low); with threshold 0, and on a row
\* with High = Low, it is true exactly when Close = Low.
C7_SignalIff ==
    SignalComputed =>
        \A k \in 1..Len(data) :
            LET b == data[k] IN
            ValidBar(b) =>
                /\ signal[k] <=> (100 * (b.Close - b.Low) <= pct_thresh * (b.High - b.Low))
                /\ pct_thresh = 0 => (signal[k] <=> b.Close = b.Low)
                /\ b.High = b.Low => (signal[k] <=> b.Close = b.Low)

C7_Witness ==
    /\ SignalComputed
    /\ Len(data) = 1
    /\ ValidBar(data[1])
    /\ data[1].Close > data[1].Low
    /\ signal[1]

SetMax(S) == CHOOSE x \in S : \A y \in S : y <= x

\* the balance_after_trade of the latest trade exited on or before d
BalanceAsOf(d) ==
    LET K == { k \in 1..Len(trades) : trades[k].exit_date <= d }
    IN IF K = {} THEN Start ELSE trades[SetMax(K)].balance_after_trade

\* the rows of the equity frame the equity loop has written
RowsWritten == IF pc = "done" THEN Len(equity_curve) ELSE IF pc = "equity" THEN i ELSE 0

\* C8: under strictly increasing dates each written row of the equity curve
\* holds the balance_after_trade of the latest trade exited on or before the
\* row's date, and the starting balance when there is none.
C8_EquityFollowsExits ==
    StrictDates =>
        \A k \in 1..RowsWritten :
            equity_curve[k].balance = BalanceAsOf(equity_curve[k].date)

C8_Witness ==
    /\ StrictDates
    /\ pc = "done"
    /\ Len(trades) = 2
    /\ equity_curve[1].balance = Start
    /\ equity_curve[2].balance # Start
    /\ equity_curve[4].balance # equity_curve[2].balance

\* C9: the equity curve has one row per row of the frame, carrying the frame's
\* dates in the frame's order, and when no trade was emitted every row holds
\* the starting balance.
C9_EquityOnePointPerDate ==
    pc \in {"equity", "done"} =>
        /\ Len(equity_curve) = Len(data)
        /\ \A k \in 1..Len(data) : equity_curve[k].date = data[k].Date
        /\ trades = <<>> => \A k \in 1..Len(equity_curve) : equity_curve[k].balance = Start

C9_Witness ==
    /\ pc = "done"
    /\ trades = <<>>
    /\ Len(equity_curve) = 4

\* C10 as stated: a frame of fewer than two rows makes the run fail before the
\* backtest loop, so that no balance, trade list or equity curve is produced.
C10_Original ==
    Len(data) < 2 => pc \notin {"loop", "forced", "report", "equity", "done"}

\* C11 as stated, at the script's threshold and for positive prices: when a row
\* has High < Low the run aborts instead of
\* computing a signal for that row, and nothing downstream of the signal
\* (backtest state, report) is produced.
C11_Original ==
    (/\ pct_thresh = PCT_THRESH
     /\ \E k \in 1..Len(data) :
           data[k].High < data[k].Low /\ data[k].High > 0 /\ data[k].Close > 0) =>
        (signal = <<>> /\ pc \in {"check", "signal", "raised"})

\* C12: when the frame lacks one of the Open, High, Low, Close columns the run
\* raises at the column check: the signal column is never computed, no
\* backtest step runs, balance keeps its initial value, no trade is recorded
\* and no equity curve is built.
C12_MissingColumnsRaise ==
    /\ [](~HasOHLC(columns) =>
            /\ pc \in {"check", "raised"}
            /\ signal = <<>>
            /\ balance = Start
            /\ trades = <<>>
            /\ equity_curve = <<>>
            /\ NumEntered = 0)
    /\ [][(pc = "check" /\ ~(OHLC \subseteq columns)) =>
            (pc' = "raised" /\ log'[Len(log')].kind = "error")]_vars

C12_Witness ==
    /\ pc = "raised"
    /\ ~(OHLC \subseteq columns)
    /\ Len(data) = 3
    /\ log = <<[kind |-> "error"]>>

AtLoopRow == pc = "loop" /\ i < Len(data) - 1
EnterStep == AtLoopRow /\ ~in_trade /\ signal[i + 1]
HoldStep == AtLoopRow /\ in_trade /\ signal[i + 1]
StayFlatStep == AtLoopRow /\ ~in_trade /\ ~signal[i + 1]
RegularExitStep == AtLoopRow /\ in_trade /\ ~signal[i + 1]
ForcedExitStep == pc = "forced" /\ in_trade

\* C14: balance and the trade log change only on a regular or forced exit; an
\* entry leaves both unchanged; a hold and a stay-flat step also leave
\* in_trade, entry_price and entry_date unchanged; logged trades are never
\* modified or removed.
C14_ChangeOnlyOnExit ==
    [][/\ EnterStep => (balance' = balance /\ trades' = trades)
       /\ (HoldStep \/ StayFlatStep) =>
            /\ balance' = balance
            /\ trades' = trades
            /\ in_trade' = in_trade
            /\ entry_price' = entry_price
            /\ entry_date' = entry_date
       /\ (balance' # balance \/ trades' # trades) => (RegularExitStep \/ ForcedExitStep)
       /\ Len(trades') >= Len(trades)
       /\ SubSeq(trades', 1, Len(trades)) = trades]_vars

C14_Witness ==
    /\ pc = "loop"
    /\ StrictDates
    /\ Len(data) = 4
    /\ i = 3
    /\ in_trade
    /\ signal[3]
    /\ entry_date = Some(data[2].Date)
    /\ data[2].Close # data[3].Close
    /\ trades = <<>>
    /\ balance = Start

\* C15: under strictly increasing dates the equity pass consumes every trade:
\* trade_idx never decreases, never exceeds len(trades) and equals len(trades)
\* when the pass ends, so that for a non-empty frame the last equity point is
\* the final running balance of the backtest loop.
C15_EquityConsumesTrades ==
    /\ [](StrictDates =>
            /\ trade_idx <= Len(trades)
            /\ pc = "done" =>
                  /\ trade_idx = Len(trades)
                  /\ Len(data) > 0 =>
                        equity_curve[Len(equity_curve)].balance = balance)
    /\ [][StrictDates => trade_idx' >= trade_idx]_vars

C15_Witness ==
    /\ StrictDates
    /\ pc = "done"
    /\ trade_idx = 2
    /\ balance # Start
    /\ equity_curve[4].balance = balance
    /\ equity_curve[3].balance # balance

\* the dates and closes of a frame, without its other columns
DatesAndCloses(df) == [k \in 1..Len(df) |-> [Date |-> df[k].Date, Close |-> df[k].Close]]

\* a signal column with the flag of the last row inverted
FlipLast(sig) == [k \in 1..Len(sig) |-> IF k = Len(sig) THEN ~sig[k] ELSE sig[k]]

\* C17: the signal of the last row is never consulted: the report of a run
\* (trade list, final balance, equity curve) is the report of the run over the
\* same dates and closes with the last row's signal flag inverted, and no
\* position is ever entered on the last row.
C17_LastSignalIgnored ==
    /\ [](pc = "done" =>
            LET mine == [trades |-> trades, balance |-> balance,
                         equity_curve |-> equity_curve]
            IN /\ mine = RunReport(DatesAndCloses(data), signal)
               /\ mine = RunReport(DatesAndCloses(data), FlipLast(signal)))
    /\ [][(~in_trade /\ in_trade') =>
            /\ i + 1 < Len(data)
            /\ entry_date' = Some(data[i + 1].Date)]_vars

C17_Witness ==
    /\ pc = "done"
    /\ Len(data) = 4
    /\ signal[4]
    /\ ~signal[3]
    /\ signal[2]
    /\ Len(trades) = 1
    /\ trades[1].exit_date = data[3].Date

\* C18: under strictly increasing dates every emitted trade, the forced final
\* trade included, has entry_date strictly before exit_date: no trade is
\* entered and exited on the same row.
C18_EntryBeforeExit ==
    StrictDates =>
        \A k \in 1..Len(trades) : trades[k].entry_date < trades[k].exit_date

C18_Witness ==
    /\ StrictDates
    /\ pc = "done"
    /\ Len(data) = 4
    /\ Len(trades) = 2
    /\ trades[2].entry_date = data[3].Date
    /\ trades[2].exit_date = data[4].Date
    /\ log[Len(log) - 1].kind = "final_exit"

Positive(q) == q[1] > 0 /\ q[2] > 0

\* C19: whenever in_trade holds, entry_price and entry_date are set, to the
\* close and date of a row the loop has visited, so no exit divides by an
\* unset entry price (the run never raises once the column check has passed);
\* every return factor and every balance value is strictly positive.
C19_EntrySetWhileInTrade ==
    /\ in_trade =>
          /\ entry_price # None
          /\ entry_date # None
          /\ \E k \in 1..Len(data) :
                /\ k <= i
                /\ entry_price = <<data[k].Close>>
                /\ entry_date = <<data[k].Date>>
                /\ signal[k]
    /\ (OHLC \subseteq columns) => pc # "raised"
    /\ Positive(balance)
    /\ Positive(current_balance)
    /\ \A k \in 1..Len(trades) :
          /\ Positive(trades[k].return_factor)
          /\ Positive(trades[k].balance_after_trade)
          /\ trades[k].entry_price > 0
    /\ \A k \in 1..Len(equity_curve) : Positive(equity_curve[k].balance)

C19_Witness ==
    /\ pc = "forced"
    /\ in_trade
    /\ Len(trades) = 1
    /\ trades[1].return_factor # <<1, 1>>
    /\ entry_price = <<data[3].Close>>
    /\ entry_date = <<data[3].Date>>

====
